---- MODULE Spec2Model ----
(***************************************************************************)
(* A model of the fair dice game of src/r.js: the dice and their pairwise  *)
(* comparison (Dice, ProbabilityCalculator), the commitment protocol       *)
(* (FairRandomGenerator), the argument parser (DiceParser) and the         *)
(* orchestrator (Game).                                                    *)
(*                                                                         *)
(* Strings are sequences of one-character strings, indices are 0-based as  *)
(* in the source (At reads a 0-based index).                               *)
(***************************************************************************)
EXTENDS Integers, Sequences, FiniteSets, TLC

VARIABLES
    \* ---- the protocol object driven call by call (SpecProtocol)
    req,        \* the rangeSize handed to new FairRandomGenerator(...)
    gen,        \* the constructed instance, or Nil
    thrown,     \* the error the constructor threw, or Nil
    log,        \* the calls made on the instance: what each was given, and
                \* what it returned (ret) or threw (error)
    \* ---- Dice.compare applied to two dice (SpecDice)
    dieA, dieB, \* the two dice (face sequences)
    cmpAB,      \* dieA.compare(dieB), or Nil before the call
    cmpBA,      \* dieB.compare(dieA), or Nil before the call
    \* ---- ProbabilityCalculator.calculate applied to a list of dice (SpecMatrix)
    diceList,   \* the dice handed to calculate
    matrix,     \* what calculate returned, or Nil before the call
    \* ---- the program run from its command line (Spec)
    args,       \* process.argv.slice(2)
    pc,         \* where the program stands
    dice,       \* Game.dice: the parsed dice (face sequences)
    rlOpen,     \* Game.rl exists and is not closed
    exitCode,   \* the code process.exit was called with, or Nil
    errorShown, \* the message console.error printed, or Nil
    fairRandom, \* the FairRandomGenerator of the current protocol run
    published,  \* the HMAC printed in the current run
    userValue,  \* userGuess / userNumber: the reply accepted in the current run
    result,     \* what computeResult returned in the current run
    revealed,   \* what reveal() returned, as printed, in the current run
    notice,     \* what the last rejected reply at the current prompt printed
    answer,     \* the line last read at a prompt
    instances,  \* how many FairRandomGenerator objects were constructed
    firstPlayer,      \* 'user' or 'computer'
    available,        \* selectDice: the indices still to pick from
    firstDieIndex,    \* selectDice
    secondDieIndex,   \* selectDice
    firstPlayerDie,   \* play: the die of the first performRoll
    secondPlayerDie,  \* play: the die of the second performRoll
    rollNo,           \* which performRoll call of play is running (1, 2)
    firstRoll,        \* play
    secondRoll,       \* play
    shownRoll,        \* the roll results printed as "Your" and as "My" roll
    announcements     \* the outcome lines printed

protoVars == <<req, gen, thrown, log>>
diceVars == <<dieA, dieB, cmpAB, cmpBA, diceList, matrix>>
runVars == <<fairRandom, published, userValue, result, revealed>>
selectVars == <<available, firstDieIndex, secondDieIndex, firstPlayerDie, secondPlayerDie>>
rollVars == <<rollNo, firstRoll, secondRoll, shownRoll>>
procVars == <<args, dice, rlOpen, exitCode, errorShown, instances>>
gameVars == <<procVars, pc, runVars, notice, answer, firstPlayer, selectVars, rollVars,
              announcements>>
vars == <<protoVars, diceVars, gameVars>>

\* an absent value is Nil and a present one Some(v), read back with Val
Nil == <<>>
Some(v) == <<v>>
Val(o) == o[1]

(***************************************************************************)
(* The parts of the state a specification does not use stay as they are    *)
(* here.                                                                   *)
(***************************************************************************)
ProtocolIdle == req = Nil /\ gen = Nil /\ thrown = Nil /\ log = <<>>

PairIdle == dieA = <<>> /\ dieB = <<>> /\ cmpAB = Nil /\ cmpBA = Nil

MatrixIdle == diceList = <<>> /\ matrix = Nil

DiceIdle == PairIdle /\ MatrixIdle

RunIdle ==
    /\ fairRandom = Nil /\ published = Nil /\ userValue = Nil
    /\ result = Nil /\ revealed = Nil

GameIdle ==
    /\ args = <<>> /\ pc = "idle" /\ dice = <<>> /\ rlOpen = FALSE
    /\ exitCode = Nil /\ errorShown = Nil
    /\ RunIdle
    /\ notice = Nil /\ answer = Nil /\ instances = 0 /\ firstPlayer = Nil
    /\ available = <<>> /\ firstDieIndex = Nil /\ secondDieIndex = Nil
    /\ firstPlayerDie = Nil /\ secondPlayerDie = Nil
    /\ rollNo = 0 /\ firstRoll = Nil /\ secondRoll = Nil
    /\ shownRoll = [user |-> Nil, computer |-> Nil]
    /\ announcements = {}

(***************************************************************************)
(* Bounds of the model.                                                    *)
(***************************************************************************)
\* the largest rangeSize tried on the protocol object
MaxRange == 3
\* how many distinct keys crypto.randomBytes may return
NumKeys == 2
\* how many calls are made on one protocol instance
MaxCalls == 3
\* the longest die of the generated dice
MaxFaces == 2
\* generated dice have faces in -MaxFace..MaxFace
MaxFace == 1

(***************************************************************************)
(* JavaScript arithmetic and conversions.                                  *)
(***************************************************************************)
Abs(n) == IF n < 0 THEN -n ELSE n

\* a % b of JavaScript: the remainder takes the sign of the dividend
JsRem(a, b) == IF a >= 0 THEN a % Abs(b) ELSE -((-a) % Abs(b))

At(s, i) == s[i + 1]

Digits == <<"0", "1", "2", "3", "4", "5", "6", "7", "8", "9">>
HexDigits == <<"0", "1", "2", "3", "4", "5", "6", "7", "8", "9",
               "a", "b", "c", "d", "e", "f">>

RECURSIVE NatToString(_)
NatToString(n) ==
    IF n < 10 THEN <<At(Digits, n)>>
    ELSE NatToString(n \div 10) \o <<At(Digits, n % 10)>>

\* Number.prototype.toString() of an integer
NumberToString(n) == IF n < 0 THEN <<"-">> \o NatToString(-n) ELSE NatToString(n)

\* Buffer.prototype.toString('hex'): two lowercase hex digits per byte
BufferToHex(bytes) ==
    [i \in 1..(2 * Len(bytes)) |->
        IF i % 2 = 1 THEN At(HexDigits, bytes[(i + 1) \div 2] \div 16)
        ELSE At(HexDigits, bytes[i \div 2] % 16)]

(***************************************************************************)
(* crypto                                                                  *)
(***************************************************************************)
\* the key is 32 bytes long
KeyLength == 32

\* crypto.randomBytes(32): the keys the model draws from
RandomBytes == {[i \in 1..KeyLength |-> (i * k * 37 + k) % 256] : k \in 0..(NumKeys - 1)}

\* crypto.randomInt(min, max): any integer of min..max-1; throws a RangeError
\* (ERR_OUT_OF_RANGE) unless max > min, which is the empty set here
RandomIntNoRangeCheck(min, max) == IF max > min THEN min..(max - 1) ELSE {min}
RandomInt(min, max) == IF max > min THEN min..(max - 1) ELSE {}

\* crypto.createHmac('sha3-256', key).update(message).digest('hex'): a
\* deterministic function of the key and the message, taken as injective
Hmac(key, message) == [alg |-> "sha3-256", key |-> key, message |-> message]

(***************************************************************************)
(* class FairRandomGenerator                                               *)
(***************************************************************************)
\* the instances new FairRandomGenerator(rangeSize) can return: none when
\* crypto.randomInt throws
NewFairRandomGenerator(rangeSize) ==
    {[rangeSize |-> rangeSize, key |-> k, computerNumber |-> n] :
        k \in RandomBytes, n \in RandomInt(0, rangeSize)}

GetHmacOfRange(g) == Hmac(g.key, NumberToString(g.rangeSize))
GetHmac(g) == Hmac(g.key, NumberToString(g.computerNumber))

ComputeResultNoRem(g, userNumber) == g.computerNumber + userNumber
ComputeResultProduct(g, userNumber) == JsRem(g.computerNumber * userNumber, g.rangeSize)
ComputeResult(g, userNumber) == JsRem(g.computerNumber + userNumber, g.rangeSize)

Reveal(g) == [key |-> BufferToHex(g.key), computerNumber |-> g.computerNumber]

\* the interval [0, rangeSize) of an instance
RangeOf(g) == 0..(g.rangeSize - 1)

(***************************************************************************)
(* class Dice                                                              *)
(***************************************************************************)
\* the inner loop of compare: the faces b of other with a > b
RECURSIVE CountGreater(_, _)
CountGreater(a, faces) ==
    IF faces = <<>> THEN 0
    ELSE (IF a > Head(faces) THEN 1 ELSE 0) + CountGreater(a, Tail(faces))

RECURSIVE CountGreaterOrEqual(_, _)
CountGreaterOrEqual(a, faces) ==
    IF faces = <<>> THEN 0
    ELSE (IF a >= Head(faces) THEN 1 ELSE 0) + CountGreaterOrEqual(a, Tail(faces))

RECURSIVE CountLess(_, _)
CountLess(a, faces) ==
    IF faces = <<>> THEN 0
    ELSE (IF a < Head(faces) THEN 1 ELSE 0) + CountLess(a, Tail(faces))

\* the outer loop of compare
RECURSIVE WinCount(_, _)
WinCount(faces, other) ==
    IF faces = <<>> THEN 0
    ELSE CountGreater(Head(faces), other) + WinCount(Tail(faces), other)

RECURSIVE WinCountWithTies(_, _)
WinCountWithTies(faces, other) ==
    IF faces = <<>> THEN 0
    ELSE CountGreaterOrEqual(Head(faces), other) + WinCountWithTies(Tail(faces), other)

RECURSIVE LossCount(_, _)
LossCount(faces, other) ==
    IF faces = <<>> THEN 0
    ELSE CountLess(Head(faces), other) + LossCount(Tail(faces), other)

\* this.compare(other): the quotient wins / pairs, kept as its two terms
CompareWithTies(this, other) ==
    [wins |-> WinCountWithTies(this, other), pairs |-> Len(this) * Len(other)]
CompareLosses(this, other) ==
    [wins |-> LossCount(this, other), pairs |-> Len(this) * Len(other)]
Compare(this, other) ==
    [wins |-> WinCount(this, other), pairs |-> Len(this) * Len(other)]

(***************************************************************************)
(* Dice.compare on its own: applied both ways to two dice, each a          *)
(* generated die or one of the three dice of the usage example.            *)
(***************************************************************************)
FixtureA == <<2, 2, 4, 4, 9, 9>>
FixtureB == <<1, 1, 6, 6, 8, 8>>
FixtureC == <<3, 3, 5, 5, 7, 7>>

GeneratedDice ==
    UNION {[1..n -> (-MaxFace)..MaxFace] : n \in 1..MaxFaces}
DiceInputs == GeneratedDice \cup {FixtureA, FixtureB, FixtureC}

InitDice ==
    /\ dieA \in DiceInputs
    /\ dieB \in DiceInputs
    /\ cmpAB = Nil
    /\ cmpBA = Nil
    /\ MatrixIdle
    /\ ProtocolIdle
    /\ GameIdle

CompareAB ==
    /\ cmpAB = Nil
    /\ cmpAB' = Some(Compare(dieA, dieB))
    /\ UNCHANGED <<dieA, dieB, cmpBA, diceList, matrix, protoVars, gameVars>>

CompareBA ==
    /\ cmpBA = Nil
    /\ cmpBA' = Some(Compare(dieB, dieA))
    /\ UNCHANGED <<dieA, dieB, cmpAB, diceList, matrix, protoVars, gameVars>>

NextDice == CompareAB \/ CompareBA

SpecDice == InitDice /\ [][NextDice]_vars

(***************************************************************************)
(* Claims on Dice.compare (SpecDice).                                      *)
(***************************************************************************)
FacePairs(a, b) == (1..Len(a)) \X (1..Len(b))
TieCount(a, b) == Cardinality({p \in FacePairs(a, b) : a[p[1]] = b[p[2]]})

\* C7: for two dice A and B, the pairs compare(A,B) counts, the pairs
\* compare(B,A) counts and the pairs of equal faces add up to |A| * |B|,
\* the divisor of both quotients: the two quotients and the tie fraction
\* add up to 1.
C7_WinsAndTiesPartition ==
    (cmpAB # Nil /\ cmpBA # Nil) =>
        /\ Val(cmpAB).pairs = Len(dieA) * Len(dieB)
        /\ Val(cmpBA).pairs = Len(dieA) * Len(dieB)
        /\ Val(cmpAB).wins + Val(cmpBA).wins + TieCount(dieA, dieB)
                = Len(dieA) * Len(dieB)
        /\ Val(cmpAB).wins =
                Cardinality({p \in FacePairs(dieA, dieB) : dieA[p[1]] > dieB[p[2]]})

C7_Witness ==
    /\ cmpAB # Nil /\ cmpBA # Nil
    /\ Val(cmpAB).wins > 0 /\ Val(cmpBA).wins > 0 /\ TieCount(dieA, dieB) > 0

\* C8: the dice A=[2,2,4,4,9,9], B=[1,1,6,6,8,8], C=[3,3,5,5,7,7] form a win
\* cycle: compare(A,B), compare(B,C) and compare(C,A) each exceed one half.
MoreThanHalf(q) == 2 * q.wins > q.pairs
C8_FixtureWinCycle ==
    cmpAB # Nil =>
        /\ (dieA = FixtureA /\ dieB = FixtureB) => MoreThanHalf(Val(cmpAB))
        /\ (dieA = FixtureB /\ dieB = FixtureC) => MoreThanHalf(Val(cmpAB))
        /\ (dieA = FixtureC /\ dieB = FixtureA) => MoreThanHalf(Val(cmpAB))

C8_Witness ==
    /\ dieA = FixtureC /\ dieB = FixtureA
    /\ cmpAB # Nil /\ Val(cmpAB).wins = 20 /\ Val(cmpAB).pairs = 36

(***************************************************************************)
(* Strings: trim, toUpperCase, split and parseInt of JavaScript.           *)
(***************************************************************************)
LowerCase == <<"a", "b", "c", "d", "e", "f", "g", "h", "i", "j", "k", "l", "m",
               "n", "o", "p", "q", "r", "s", "t", "u", "v", "w", "x", "y", "z">>
UpperCase == <<"A", "B", "C", "D", "E", "F", "G", "H", "I", "J", "K", "L", "M",
               "N", "O", "P", "Q", "R", "S", "T", "U", "V", "W", "X", "Y", "Z">>

IsDigit(c) == \E i \in 1..10 : Digits[i] = c
DigitValue(c) == (CHOOSE i \in 1..10 : Digits[i] = c) - 1

RECURSIVE TrimStart(_)
TrimStart(str) ==
    IF str # <<>> /\ Head(str) = " " THEN TrimStart(Tail(str)) ELSE str

RECURSIVE TrimEnd(_)
TrimEnd(str) ==
    IF str # <<>> /\ str[Len(str)] = " "
    THEN TrimEnd(SubSeq(str, 1, Len(str) - 1)) ELSE str

\* String.prototype.trim
Trim(str) == TrimEnd(TrimStart(str))

\* String.prototype.toUpperCase
ToUpperCase(str) ==
    [i \in 1..Len(str) |->
        IF \E k \in 1..26 : LowerCase[k] = str[i]
        THEN UpperCase[CHOOSE k \in 1..26 : LowerCase[k] = str[i]]
        ELSE str[i]]

\* String.prototype.split(','): the pieces between the commas, at least one
RECURSIVE SplitFrom(_, _)
SplitFrom(str, piece) ==
    IF str = <<>> THEN <<piece>>
    ELSE IF Head(str) = "," THEN <<piece>> \o SplitFrom(Tail(str), <<>>)
    ELSE SplitFrom(Tail(str), Append(piece, Head(str)))
Split(str) == SplitFrom(str, <<>>)

\* the digits a string starts with
RECURSIVE LeadingDigits(_)
LeadingDigits(str) ==
    IF str # <<>> /\ IsDigit(Head(str))
    THEN <<Head(str)>> \o LeadingDigits(Tail(str)) ELSE <<>>

RECURSIVE DigitsValue(_, _)
DigitsValue(ds, acc) ==
    IF ds = <<>> THEN acc ELSE DigitsValue(Tail(ds), 10 * acc + DigitValue(Head(ds)))

\* parseInt(str, 10): leading white space is skipped, a sign is read, then
\* the longest run of digits; what follows the digits is ignored, and with
\* no digit the result is NaN, which is Nil here
ParseInt(str) ==
    LET t == TrimStart(str)
        signed == t # <<>> /\ Head(t) \in {"-", "+"}
        body == IF signed THEN Tail(t) ELSE t
        ds == LeadingDigits(body)
    IN  IF ds = <<>> THEN Nil
        ELSE IF signed /\ Head(t) = "-" THEN Some(-DigitsValue(ds, 0))
        ELSE Some(DigitsValue(ds, 0))

(***************************************************************************)
(* class DiceParser                                                        *)
(***************************************************************************)
\* the faces of one argument: parseInt of each piece
FacesOf(arg) == [i \in 1..Len(Split(arg)) |-> ParseInt(Split(arg)[i])]

\* DiceParser.parse(args): the dice, or the error thrown
Parse(argv) ==
    IF Len(argv) < 3 THEN [dice |-> <<>>, error |-> Some("At least 3 dice are required")]
    ELSE IF \E i \in 1..Len(argv) : \E k \in 1..Len(FacesOf(argv[i])) :
                FacesOf(argv[i])[k] = Nil
    THEN [dice |-> <<>>, error |-> Some("Invalid die faces")]
    ELSE [dice |-> [i \in 1..Len(argv) |->
                      [k \in 1..Len(FacesOf(argv[i])) |-> Val(FacesOf(argv[i])[k])]],
          error |-> Nil]

(***************************************************************************)
(* class ProbabilityCalculator                                             *)
(***************************************************************************)
CalculateTransposed(ds) ==
    [i \in 1..Len(ds) |-> [j \in 1..Len(ds) |-> Compare(ds[j], ds[i])]]
Calculate(ds) == [i \in 1..Len(ds) |-> [j \in 1..Len(ds) |-> Compare(ds[i], ds[j])]]

(***************************************************************************)
(* ProbabilityCalculator.calculate on its own: one call on a list of dice  *)
(***************************************************************************)
\* the lists of dice the function is called on: none, one or two of the
\* generated dice, and triples that include the three dice of the usage text
DiceLists ==
    {<<>>}
    \cup {<<a>> : a \in GeneratedDice}
    \cup {<<a, b>> : a \in GeneratedDice, b \in GeneratedDice}
    \cup {<<a, b, c>> : a \in {FixtureA, FixtureB, FixtureC, <<1>>},
                        b \in {FixtureA, FixtureB, FixtureC, <<1>>},
                        c \in {FixtureA, FixtureB, FixtureC, <<1>>}}

InitMatrix ==
    /\ diceList \in DiceLists
    /\ matrix = Nil
    /\ PairIdle
    /\ ProtocolIdle
    /\ GameIdle

CalculateMatrix ==
    /\ matrix = Nil
    /\ matrix' = Some(Calculate(diceList))
    /\ UNCHANGED <<diceList, dieA, dieB, cmpAB, cmpBA, protoVars, gameVars>>

NextMatrix == CalculateMatrix

SpecMatrix == InitMatrix /\ [][NextMatrix]_vars

\* the pairs (x, y) of positions where the face of this beats the face of other
StrictlyGreaterPairs(this, other) ==
    {xy \in (1..Len(this)) \X (1..Len(other)) : this[xy[1]] > other[xy[2]]}
AllFacesIdentical(die) == \A x \in 1..Len(die) : die[x] = die[1]

\* C15: the matrix calculated for a list of dice is square, of the size
\* of the list; its entry (i, j), for every ordered pair and i = j
\* included, is the comparison of die i with die j: the number of face
\* pairs where die i is strictly greater, over the product of the face
\* counts; the diagonal entry of a die whose faces are all identical is 0;
\* and the calculation leaves the list of dice as it was.
MatrixOfComparisons ==
    matrix # Nil =>
        LET m == Val(matrix)
            n == Len(diceList)
        IN  /\ Len(m) = n
            /\ \A i \in 1..n :
                /\ Len(m[i]) = n
                /\ \A j \in 1..n :
                    /\ m[i][j].wins =
                           Cardinality(StrictlyGreaterPairs(diceList[i], diceList[j]))
                    /\ m[i][j].pairs = Len(diceList[i]) * Len(diceList[j])
                    /\ m[i][j] = Compare(diceList[i], diceList[j])
                /\ AllFacesIdentical(diceList[i]) => m[i][i].wins = 0
C15_MatrixOfAllOrderedPairs ==
    /\ []MatrixOfComparisons
    /\ [][diceList' = diceList]_vars

C15_Witness ==
    /\ matrix # Nil
    /\ diceList = <<FixtureA, <<1>>, FixtureB>>
    /\ Val(matrix)[1][3].wins # Val(matrix)[3][1].wins
    /\ Val(matrix)[1][1].wins > 0
    /\ Val(matrix)[2][2].wins = 0

(***************************************************************************)
(* class Game: the replies at a prompt                                     *)
(***************************************************************************)
\* Game.prompt resolves with the line read, trimmed
Prompt(line) == Trim(line)

\* one turn of the loop of promptMenu on the line read: help, exit, the
\* number returned, or an invalid selection
PromptMenuNoHelp(nOptions, line) ==
    LET input == ToUpperCase(Prompt(line))
        num == ParseInt(input)
    IN  IF input = <<"X">> THEN [kind |-> "exit", num |-> 0]
        ELSE IF num # Nil /\ Val(num) >= 0 /\ Val(num) < nOptions
        THEN [kind |-> "return", num |-> Val(num)]
        ELSE [kind |-> "invalid", num |-> 0]
PromptMenu(nOptions, line) ==
    LET input == ToUpperCase(Prompt(line))
        num == ParseInt(input)
    IN  IF input = <<"?">> THEN [kind |-> "help", num |-> 0]
        ELSE IF input = <<"X">> THEN [kind |-> "exit", num |-> 0]
        ELSE IF num # Nil /\ Val(num) >= 0 /\ Val(num) < nOptions
        THEN [kind |-> "return", num |-> Val(num)]
        ELSE [kind |-> "invalid", num |-> 0]

\* one turn of the loop of performRoll on the line read
RollReplyNoExit(nFaces, line) ==
    LET input == Prompt(line)
        userNumber == ParseInt(input)
    IN  IF input = <<"?">> THEN [kind |-> "help", num |-> 0]
        ELSE IF userNumber # Nil /\ Val(userNumber) >= 0 /\ Val(userNumber) < nFaces
        THEN [kind |-> "return", num |-> Val(userNumber)]
        ELSE [kind |-> "invalid", num |-> 0]
RollReplyPositive(nFaces, line) ==
    LET input == Prompt(line)
        userNumber == ParseInt(input)
    IN  IF input = <<"?">> THEN [kind |-> "help", num |-> 0]
        ELSE IF input = <<"X">> THEN [kind |-> "exit", num |-> 0]
        ELSE IF userNumber # Nil /\ Val(userNumber) > 0 /\ Val(userNumber) < nFaces
        THEN [kind |-> "return", num |-> Val(userNumber)]
        ELSE [kind |-> "invalid", num |-> 0]
RollReply(nFaces, line) ==
    LET input == Prompt(line)
        userNumber == ParseInt(input)
    IN  IF input = <<"?">> THEN [kind |-> "help", num |-> 0]
        ELSE IF input = <<"X">> THEN [kind |-> "exit", num |-> 0]
        ELSE IF userNumber # Nil /\ Val(userNumber) >= 0 /\ Val(userNumber) < nFaces
        THEN [kind |-> "return", num |-> Val(userNumber)]
        ELSE [kind |-> "invalid", num |-> 0]

\* a reply that keeps the prompt (help, invalid) or ends the process (exit)
Rejected(reply) ==
    /\ reply.kind # "return"
    /\ IF reply.kind = "exit"
       THEN pc' = "exited" /\ exitCode' = Some(0) /\ UNCHANGED notice
       ELSE /\ notice' = Some([kind |-> reply.kind,
                               table |-> IF reply.kind = "help"
                                         THEN Calculate(dice) ELSE <<>>])
            /\ UNCHANGED <<pc, exitCode>>

(***************************************************************************)
(* Arrays                                                                  *)
(***************************************************************************)
\* Array.prototype.indexOf: the first 0-based index of v, or -1
IndexOf(arr, v) ==
    IF \E i \in 1..Len(arr) : arr[i] = v
    THEN (CHOOSE i \in 1..Len(arr) : arr[i] = v /\ \A k \in 1..(i - 1) : arr[k] # v) - 1
    ELSE -1

SpliceNothing(arr, start) == arr
\* arr.splice(start, 1): a negative start counts from the end
Splice(arr, start) ==
    LET from == IF start < 0 THEN (IF Len(arr) + start < 0 THEN 0 ELSE Len(arr) + start)
                ELSE start
    IN  [i \in 1..(IF from < Len(arr) THEN Len(arr) - 1 ELSE Len(arr)) |->
            IF i <= from THEN arr[i] ELSE arr[i + 1]]

\* die.faces[index]: undefined, which is Nil here, outside the array
FaceAt(die, index) ==
    IF index \in 0..(Len(dice[die + 1]) - 1) THEN Some(At(dice[die + 1], index)) ELSE Nil

(***************************************************************************)
(* The program: the command lines and the lines the user types              *)
(***************************************************************************)
ArgLists == {
    \* the usage example
    <<<<"2", ",", "2", ",", "4", ",", "4", ",", "9", ",", "9">>,
      <<"6", ",", "8", ",", "1", ",", "1", ",", "8", ",", "6">>,
      <<"7", ",", "5", ",", "3", ",", "7", ",", "5", ",", "3">>>>,
    \* four dice of different lengths, with equal faces and a negative face
    <<<<"1", ",", "2">>,
      <<"2", ",", "2", ",", "3">>,
      <<"-", "1">>,
      <<"0", ",", "3">>>>,
    \* too few dice
    <<<<"1", ",", "2", ",", "3">>,
      <<"4", ",", "5", ",", "6">>>>,
    \* a face that is no number
    <<<<"1", ",", "2">>,
      <<"a", ",", "3">>,
      <<"4">>>>,
    \* faces that only start with a number
    <<<<"1", "x", ",", "2">>,
      <<"3", ".", "5">>,
      <<"4">>>>}

\* the largest number the user types
MaxReply == 6

InputLines ==
    {NumberToString(n) : n \in (-1)..MaxReply} \cup
    {<<"?">>, <<"X">>, <<"x">>, <<>>, <<"a", "b", "c">>, <<"1", "x">>, <<" ", "1", " ">>,
     <<"1", ".", "5">>}

Init ==
    /\ args \in ArgLists
    /\ pc = "start"
    /\ dice = <<>> /\ rlOpen = FALSE /\ exitCode = Nil /\ errorShown = Nil
    /\ RunIdle
    /\ notice = Nil /\ answer = Nil /\ instances = 0 /\ firstPlayer = Nil
    /\ available = <<>> /\ firstDieIndex = Nil /\ secondDieIndex = Nil
    /\ firstPlayerDie = Nil /\ secondPlayerDie = Nil
    /\ rollNo = 0 /\ firstRoll = Nil /\ secondRoll = Nil
    /\ shownRoll = [user |-> Nil, computer |-> Nil]
    /\ announcements = {}
    /\ ProtocolIdle
    /\ DiceIdle

others == <<protoVars, diceVars, args, instances>>

\* the top level: parse the arguments, construct the Game, call play()
Startup ==
    /\ pc = "start"
    /\ IF Parse(args).error # Nil
       THEN /\ errorShown' = Parse(args).error
            /\ exitCode' = Some(1)
            /\ pc' = "exited"
            /\ UNCHANGED <<dice, rlOpen>>
       ELSE /\ dice' = Parse(args).dice
            /\ rlOpen' = TRUE
            /\ pc' = "fm_new"
            /\ UNCHANGED <<errorShown, exitCode>>
    /\ UNCHANGED <<runVars, notice, answer, firstPlayer, selectVars, rollVars, announcements,
                   others>>

\* const fairRandom = new FairRandomGenerator(rangeSize); an error thrown
\* is caught by play, which prints it and closes the interface
NewRunReusing(rangeSize, next) ==
    IF fairRandom # Nil /\ Val(fairRandom).rangeSize = rangeSize
    THEN /\ published' = Nil /\ userValue' = Nil /\ result' = Nil /\ revealed' = Nil
         /\ pc' = next
         /\ UNCHANGED <<fairRandom, errorShown, rlOpen, exitCode, instances>>
    ELSE /\ \E g \in NewFairRandomGenerator(rangeSize) : fairRandom' = Some(g)
         /\ published' = Nil /\ userValue' = Nil /\ result' = Nil /\ revealed' = Nil
         /\ instances' = instances + 1
         /\ pc' = next
         /\ UNCHANGED <<errorShown, rlOpen, exitCode>>
NewRun(rangeSize, next) ==
    IF NewFairRandomGenerator(rangeSize) = {}
    THEN /\ errorShown' = Some("RangeError")
         /\ rlOpen' = FALSE
         /\ pc' = "done"
         /\ UNCHANGED <<runVars, exitCode, instances>>
    ELSE /\ \E g \in NewFairRandomGenerator(rangeSize) : fairRandom' = Some(g)
         /\ published' = Nil /\ userValue' = Nil /\ result' = Nil /\ revealed' = Nil
         /\ instances' = instances + 1
         /\ pc' = next
         /\ UNCHANGED <<errorShown, rlOpen, exitCode>>

\* console.log(... HMAC=${fairRandom.getHmac()} ...)
PublishWithKey(next) ==
    /\ published' = Some(GetHmac(Val(fairRandom)))
    /\ revealed' = Some(Reveal(Val(fairRandom)))
    /\ pc' = next
    /\ UNCHANGED <<fairRandom, userValue, result>>
Publish(next) ==
    /\ published' = Some(GetHmac(Val(fairRandom)))
    /\ pc' = next
    /\ UNCHANGED <<fairRandom, userValue, result, revealed>>

\* const result = fairRandom.computeResult(userValue)
Compute(next) ==
    /\ result' = Some(ComputeResult(Val(fairRandom), Val(userValue)))
    /\ pc' = next
    /\ UNCHANGED <<fairRandom, published, userValue, revealed>>

\* const revealed = fairRandom.reveal(); console.log(...)
Disclose(next) ==
    /\ revealed' = Some(Reveal(Val(fairRandom)))
    /\ pc' = next
    /\ UNCHANGED <<fairRandom, published, userValue, result>>

(***************************************************************************)
(* Game.determineFirstMove                                                 *)
(***************************************************************************)
FirstMoveNew ==
    /\ pc = "fm_new"
    /\ NewRun(2, "fm_publish")
    /\ UNCHANGED <<dice, notice, answer, firstPlayer, selectVars, rollVars, announcements,
                   protoVars, diceVars, args>>

FirstMovePublish ==
    /\ pc = "fm_publish"
    /\ Publish("fm_prompt")
    /\ UNCHANGED <<procVars, notice, answer, firstPlayer, selectVars, rollVars, announcements,
                   protoVars, diceVars>>

FirstMovePrompt ==
    /\ pc = "fm_prompt"
    /\ \E line \in InputLines :
        LET reply == PromptMenu(2, line) IN
        \/ /\ reply.kind = "return"
           /\ userValue' = Some(reply.num)
           /\ notice' = Nil
           /\ answer' = Some(line)
           /\ pc' = "fm_compute"
           /\ UNCHANGED exitCode
        \/ /\ Rejected(reply)
           /\ answer' = Some(line)
           /\ UNCHANGED userValue
    /\ UNCHANGED <<dice, rlOpen, errorShown, fairRandom, published, result, revealed,
                   firstPlayer, selectVars, rollVars, announcements, others>>

FirstMoveCompute ==
    /\ pc = "fm_compute"
    /\ Compute("fm_reveal")
    /\ UNCHANGED <<procVars, notice, answer, firstPlayer, selectVars, rollVars, announcements,
                   protoVars, diceVars>>

FirstMoveReveal ==
    /\ pc = "fm_reveal"
    /\ Disclose("fm_return")
    /\ UNCHANGED <<procVars, notice, answer, firstPlayer, selectVars, rollVars, announcements,
                   protoVars, diceVars>>

\* return result === 0 ? 'user' : 'computer'
FirstMoverOfNonZero(r) == IF r # 0 THEN "user" ELSE "computer"
FirstMoverOf(r) == IF r = 0 THEN "user" ELSE "computer"

FirstMoveReturn ==
    /\ pc = "fm_return"
    /\ firstPlayer' = Some(FirstMoverOf(Val(result)))
    /\ pc' = "sd_begin"
    /\ UNCHANGED <<procVars, runVars, notice, answer, selectVars, rollVars, announcements,
                   protoVars, diceVars>>

(***************************************************************************)
(* Game.selectDice                                                         *)
(***************************************************************************)
SelectBegin ==
    /\ pc = "sd_begin"
    /\ available' = [i \in 1..Len(dice) |-> i - 1]
    /\ pc' = IF Val(firstPlayer) = "user" THEN "sd_user_first" ELSE "sd_computer_first"
    /\ UNCHANGED <<procVars, runVars, notice, answer, firstPlayer, firstDieIndex, secondDieIndex,
                   firstPlayerDie, secondPlayerDie, rollVars, announcements,
                   protoVars, diceVars>>

\* firstDieIndex = await this.promptMenu(all the dice)
SelectUserFirst ==
    /\ pc = "sd_user_first"
    /\ \E line \in InputLines :
        LET reply == PromptMenu(Len(dice), line) IN
        \/ /\ reply.kind = "return"
           /\ firstDieIndex' = Some(reply.num)
           /\ notice' = Nil
           /\ answer' = Some(line)
           /\ pc' = "sd_computer_second"
           /\ UNCHANGED exitCode
        \/ /\ Rejected(reply)
           /\ answer' = Some(line)
           /\ UNCHANGED firstDieIndex
    /\ UNCHANGED <<dice, rlOpen, errorShown, runVars, firstPlayer, available,
                   secondDieIndex, firstPlayerDie, secondPlayerDie, rollVars,
                   announcements, others>>

\* the splice, and the computer's pick among the indices left
SelectComputerSecond ==
    /\ pc = "sd_computer_second"
    /\ LET left == Splice(available, IndexOf(available, Val(firstDieIndex))) IN
        /\ available' = left
        /\ \E k \in RandomInt(0, Len(left)) : secondDieIndex' = Some(At(left, k))
    /\ pc' = "sd_return"
    /\ UNCHANGED <<procVars, runVars, notice, answer, firstPlayer, firstDieIndex,
                   firstPlayerDie, secondPlayerDie, rollVars, announcements,
                   protoVars, diceVars>>

\* the computer's pick among all the dice, and the splice
SelectComputerFirst ==
    /\ pc = "sd_computer_first"
    /\ \E k \in RandomInt(0, Len(dice)) :
        /\ firstDieIndex' = Some(k)
        /\ available' = Splice(available, IndexOf(available, k))
    /\ pc' = "sd_user_second"
    /\ UNCHANGED <<procVars, runVars, notice, answer, firstPlayer, secondDieIndex,
                   firstPlayerDie, secondPlayerDie, rollVars, announcements,
                   protoVars, diceVars>>

\* secondDieIndex = available[await this.promptMenu(the dice left)]
SelectUserSecond ==
    /\ pc = "sd_user_second"
    /\ \E line \in InputLines :
        LET reply == PromptMenu(Len(available), line) IN
        \/ /\ reply.kind = "return"
           /\ secondDieIndex' = Some(At(available, reply.num))
           /\ notice' = Nil
           /\ answer' = Some(line)
           /\ pc' = "sd_return"
           /\ UNCHANGED exitCode
        \/ /\ Rejected(reply)
           /\ answer' = Some(line)
           /\ UNCHANGED secondDieIndex
    /\ UNCHANGED <<dice, rlOpen, errorShown, runVars, firstPlayer, available,
                   firstDieIndex, firstPlayerDie, secondPlayerDie, rollVars,
                   announcements, others>>

\* the object selectDice returns, as play destructures it; a die is held by
\* reference, which is its index in this.dice
SelectReturn ==
    /\ pc = "sd_return"
    /\ firstPlayerDie' = IF Val(firstPlayer) = "user" THEN firstDieIndex ELSE secondDieIndex
    /\ secondPlayerDie' = IF Val(firstPlayer) = "user" THEN secondDieIndex ELSE firstDieIndex
    /\ rollNo' = 1
    /\ pc' = "roll_new"
    /\ UNCHANGED <<procVars, runVars, notice, answer, firstPlayer, available, firstDieIndex,
                   secondDieIndex, firstRoll, secondRoll, shownRoll, announcements,
                   protoVars, diceVars>>

(***************************************************************************)
(* Game.performRoll(die), called twice by play                             *)
(***************************************************************************)
\* the die of the running call
Die == IF rollNo = 1 THEN Val(firstPlayerDie) ELSE Val(secondPlayerDie)
Faces(die) == dice[die + 1]

RollNew ==
    /\ pc = "roll_new"
    /\ NewRun(Len(Faces(Die)), "roll_publish")
    /\ UNCHANGED <<dice, notice, answer, firstPlayer, selectVars, rollVars, announcements,
                   protoVars, diceVars, args>>

RollPublish ==
    /\ pc = "roll_publish"
    /\ Publish("roll_prompt")
    /\ UNCHANGED <<procVars, notice, answer, firstPlayer, selectVars, rollVars, announcements,
                   protoVars, diceVars>>

RollPrompt ==
    /\ pc = "roll_prompt"
    /\ \E line \in InputLines :
        LET reply == RollReply(Len(Faces(Die)), line) IN
        \/ /\ reply.kind = "return"
           /\ userValue' = Some(reply.num)
           /\ notice' = Nil
           /\ answer' = Some(line)
           /\ pc' = "roll_compute"
           /\ UNCHANGED exitCode
        \/ /\ Rejected(reply)
           /\ answer' = Some(line)
           /\ UNCHANGED userValue
    /\ UNCHANGED <<dice, rlOpen, errorShown, fairRandom, published, result, revealed,
                   firstPlayer, selectVars, rollVars, announcements, others>>

RollCompute ==
    /\ pc = "roll_compute"
    /\ Compute("roll_reveal")
    /\ UNCHANGED <<procVars, notice, answer, firstPlayer, selectVars, rollVars, announcements,
                   protoVars, diceVars>>

RollReveal ==
    /\ pc = "roll_reveal"
    /\ Disclose("roll_return")
    /\ UNCHANGED <<procVars, notice, answer, firstPlayer, selectVars, rollVars, announcements,
                   protoVars, diceVars>>

\* whose roll play prints the result of the running call as
Roller == IF (rollNo = 1) = (Val(firstPlayer) = "user") THEN "user" ELSE "computer"

\* return die.faces[result], and play's console.log of the roll result
RollReturn ==
    /\ pc = "roll_return"
    /\ shownRoll' = [shownRoll EXCEPT ![Roller] = FaceAt(Die, Val(result))]
    /\ IF rollNo = 1
       THEN /\ firstRoll' = FaceAt(Die, Val(result))
            /\ rollNo' = 2
            /\ pc' = "roll_new"
            /\ UNCHANGED secondRoll
       ELSE /\ secondRoll' = FaceAt(Die, Val(result))
            /\ pc' = "outcome"
            /\ UNCHANGED <<firstRoll, rollNo>>
    /\ UNCHANGED <<procVars, runVars, notice, answer, firstPlayer, selectVars, announcements,
                   protoVars, diceVars>>

(***************************************************************************)
(* Game.play: the outcome and the finally block                            *)
(***************************************************************************)
\* a > b of two rolls: false when either is undefined
Greater(a, b) == a # Nil /\ b # Nil /\ Val(a) > Val(b)

\* the line printed: 'You win', 'I win' or the tie
OutcomeTiesToFirst(first, second, firstMover) ==
    IF ~Greater(second, first) THEN (IF firstMover = "user" THEN "You win" ELSE "I win")
    ELSE (IF firstMover = "user" THEN "I win" ELSE "You win")
Outcome(first, second, firstMover) ==
    IF Greater(first, second) THEN (IF firstMover = "user" THEN "You win" ELSE "I win")
    ELSE IF Greater(second, first) THEN (IF firstMover = "user" THEN "I win" ELSE "You win")
    ELSE "It's a tie"

Announce ==
    /\ pc = "outcome"
    /\ announcements' = announcements \cup {Outcome(firstRoll, secondRoll, Val(firstPlayer))}
    /\ pc' = "finally"
    /\ UNCHANGED <<procVars, runVars, notice, answer, firstPlayer, selectVars, rollVars,
                   protoVars, diceVars>>

\* finally { this.rl.close() }
Finally ==
    /\ pc = "finally"
    /\ rlOpen' = FALSE
    /\ pc' = "done"
    /\ UNCHANGED <<args, dice, exitCode, errorShown, instances, runVars, notice, answer, firstPlayer,
                   selectVars, rollVars, announcements, protoVars, diceVars>>

Next ==
    \/ Startup
    \/ FirstMoveNew \/ FirstMovePublish \/ FirstMovePrompt
    \/ FirstMoveCompute \/ FirstMoveReveal \/ FirstMoveReturn
    \/ SelectBegin \/ SelectUserFirst \/ SelectComputerSecond
    \/ SelectComputerFirst \/ SelectUserSecond \/ SelectReturn
    \/ RollNew \/ RollPublish \/ RollPrompt \/ RollCompute \/ RollReveal \/ RollReturn
    \/ Announce \/ Finally

Spec == Init /\ [][Next]_vars

\* the steps the program takes by itself: everything but the reading of a
\* reply at a prompt
ProgramStep ==
    \/ Startup
    \/ FirstMoveNew \/ FirstMovePublish
    \/ FirstMoveCompute \/ FirstMoveReveal \/ FirstMoveReturn
    \/ SelectBegin \/ SelectComputerSecond
    \/ SelectComputerFirst \/ SelectReturn
    \/ RollNew \/ RollPublish \/ RollCompute \/ RollReveal \/ RollReturn
    \/ Announce \/ Finally

\* the number of options of the prompt the program is at
OptionsAtPrompt ==
    CASE pc = "fm_prompt" -> 2
      [] pc = "sd_user_first" -> Len(dice)
      [] pc = "sd_user_second" -> Len(available)
      [] OTHER -> Len(Faces(Die))

\* the program is at a prompt and some line makes the prompt loop break
\* (promptMenu returns the number, performRoll leaves its while (true))
CanReplyValidly ==
    /\ pc \in {"fm_prompt", "sd_user_first", "sd_user_second", "roll_prompt"}
    /\ \E line \in InputLines :
        IF pc = "roll_prompt"
        THEN RollReply(OptionsAtPrompt, line).kind = "return"
        ELSE PromptMenu(OptionsAtPrompt, line).kind = "return"

\* a step by which a prompt loop breaks
ValidReply ==
    /\ pc \in {"fm_prompt", "sd_user_first", "sd_user_second", "roll_prompt"}
    /\ pc' # pc
    /\ pc' # "exited"

\* the program with its scheduling: every awaited step of the program is
\* resumed (weak fairness of ProgramStep), and a user who is asked again
\* and again eventually gives a reply the loop breaks on.  The second
\* conjunct is weak fairness of the valid reply written out, with
\* CanReplyValidly for its enabling condition.
SpecLive ==
    /\ Init /\ [][Next]_vars
    /\ WF_vars(ProgramStep)
    /\ ([]<>(~CanReplyValidly) \/ []<><<ValidReply>>_vars)

(***************************************************************************)
(* Claims on the program (Spec).                                           *)
(***************************************************************************)
AtPrompt == pc \in {"fm_prompt", "roll_prompt"}

\* C1: in each of the three protocol runs (first move, first roll, second
\* roll) the commitment is printed before the user is asked, and the key
\* and the secret value are printed only after a valid reply was accepted
\* and handed to computeResult: in no state is a run's key or secret
\* disclosed while the user's value of that run is not fixed.
C1_DisclosureAfterCounterpart ==
    /\ AtPrompt =>
        /\ published = Some(GetHmac(Val(fairRandom)))
        /\ userValue = Nil /\ result = Nil /\ revealed = Nil
    /\ userValue # Nil =>
        /\ published # Nil
        /\ Val(userValue) \in RangeOf(Val(fairRandom))
    /\ revealed # Nil =>
        /\ published # Nil
        /\ userValue # Nil
        /\ result = Some(ComputeResult(Val(fairRandom), Val(userValue)))

C1_Witness ==
    /\ pc = "roll_return" /\ rollNo = 2
    /\ revealed # Nil /\ userValue # Nil /\ Val(userValue) > 0

\* C9: the first move is decided by a run of range 2, and the user moves
\* first exactly when (secret value + guess) mod 2 is 0, which is exactly
\* when the guess equals the secret value; otherwise the computer does.
C9_FirstMoveByGuess ==
    (firstPlayer # Nil /\ rollNo = 0) =>
        LET secret == Val(fairRandom).computerNumber
            guess == Val(userValue)
        IN  /\ Val(fairRandom).rangeSize = 2
            /\ secret \in {0, 1} /\ guess \in {0, 1}
            /\ Val(firstPlayer) \in {"user", "computer"}
            /\ (Val(firstPlayer) = "user") <=> ((secret + guess) % 2 = 0)
            /\ (Val(firstPlayer) = "user") <=> (guess = secret)
            /\ Val(revealed).computerNumber = secret

C9_Witness ==
    /\ firstPlayer = Some("user") /\ rollNo = 0
    /\ Val(userValue) = 1 /\ Val(fairRandom).computerNumber = 1

\* C10: a game that ran to its end printed exactly one outcome line, decided
\* by the two roll results printed: 'You win' when the roll printed as the
\* user's is strictly greater, 'I win' when the roll printed as the
\* computer's is, and the tie when they are equal; before that no outcome
\* line is printed.
GameOver == pc \in {"finally", "done"} /\ errorShown = Nil
C10_OutcomeByRolls ==
    /\ GameOver =>
        /\ shownRoll.user # Nil /\ shownRoll.computer # Nil
        /\ {firstRoll, secondRoll} = {shownRoll.user, shownRoll.computer}
        /\ LET mine == Val(shownRoll.user)
               theirs == Val(shownRoll.computer)
           IN  announcements = {IF mine > theirs THEN "You win"
                                ELSE IF theirs > mine THEN "I win"
                                ELSE "It's a tie"}
    /\ ~GameOver => announcements = {}

C10_Witness ==
    /\ pc = "done" /\ rlOpen = FALSE
    /\ announcements = {"It's a tie"}
    /\ Val(firstPlayer) = "computer"

\* ---- what the prompts are held to
PromptPcs == {"fm_prompt", "sd_user_first", "sd_user_second", "roll_prompt"}

\* how many options the prompt the program stands at offers
OptionCount ==
    CASE pc = "fm_prompt" -> 2
      [] pc = "sd_user_first" -> Len(dice)
      [] pc = "sd_user_second" -> Len(available)
      [] OTHER -> Len(Faces(Die))

\* a text that is an integer in decimal: an optional sign, then digits only
IsIntegerText(str) ==
    LET body == IF str # <<>> /\ Head(str) \in {"-", "+"} THEN Tail(str) ELSE str
    IN  body # <<>> /\ \A i \in 1..Len(body) : IsDigit(body[i])
IntegerOf(str) == Val(ParseInt(str))

\* the step from a prompt hands the number n on to the game
PassesOn(n) ==
    CASE pc = "sd_user_first" -> firstDieIndex' = Some(n)
      [] pc = "sd_user_second" -> secondDieIndex' = Some(At(available, n))
      [] OTHER -> userValue' = Some(n)

\* C11: at every prompt a reply that is no integer, or an integer outside
\* the options, is reported and asked again, ends nothing and moves nothing;
\* the prompt is left only by an in-range integer (or by the exit), and the
\* number handed on is that integer.
OnlyIntegersLeave ==
    pc \in PromptPcs =>
        LET line == Trim(Val(answer')) IN
        IF ToUpperCase(line) = <<"X">> THEN TRUE
        ELSE IF IsIntegerText(line) /\ IntegerOf(line) \in 0..(OptionCount - 1)
        THEN pc' # pc /\ exitCode' = Nil /\ PassesOn(IntegerOf(line))
        ELSE pc' = pc /\ notice' # Nil /\ exitCode' = Nil
C11_OnlyIntegersLeaveThePrompt == [][OnlyIntegersLeave]_vars

\* C12: with fewer than 3 arguments, or with a face that is no integer, the
\* program prints the error and exits with code 1 before anything else: no
\* Game, no FairRandomGenerator, no HMAC printed.
BadConfiguration ==
    \/ Len(args) < 3
    \/ \E i \in 1..Len(args) : \E k \in 1..Len(Split(args[i])) :
        ~IsIntegerText(Split(args[i])[k])
C12_BadConfigurationIsFatal ==
    BadConfiguration =>
        /\ pc \in {"start", "exited"}
        /\ pc = "exited" => (exitCode = Some(1) /\ errorShown # Nil)
        /\ rlOpen = FALSE /\ instances = 0 /\ fairRandom = Nil /\ published = Nil

\* C13: the exit token X at any prompt (the guess, a dice menu, either roll)
\* ends the process at once with code 0: that step discloses nothing, the
\* run in flight stays undisclosed, no generator is constructed and no
\* outcome is printed, and no step follows it.
AbortEndsTheProcess ==
    /\ (pc \in PromptPcs /\ Trim(Val(answer')) = <<"X">>) =>
        /\ pc' = "exited" /\ exitCode' = Some(0)
        /\ UNCHANGED <<runVars, instances, announcements, rollVars, selectVars, firstPlayer>>
        /\ pc \in {"fm_prompt", "roll_prompt"} => revealed' = Nil
    /\ pc = "exited" => FALSE
C13_AbortIsImmediate ==
    /\ [][AbortEndsTheProcess]_vars
    /\ []((pc = "exited" /\ exitCode = Some(0)) =>
            (announcements = {} /\ Trim(Val(answer)) \in {<<"X">>, <<"x">>}))

C13_Witness ==
    /\ pc = "exited" /\ exitCode = Some(0) /\ answer = Some(<<"X">>)
    /\ rollNo = 2 /\ published # Nil /\ revealed = Nil /\ instances = 3

\* C14: the protocol runs follow one another and never overlap: a step
\* that constructs a generator constructs exactly one, with a key and a
\* secret value of its own drawing, and only after the run before it has
\* computed its result and disclosed; the generator in use changes only by
\* such a step, what a run prints comes from its own generator, and a game
\* that ran to its end constructed exactly three.
RunComplete == userValue # Nil /\ result # Nil /\ revealed # Nil
RunsFollowOneAnother ==
    /\ instances' # instances =>
        /\ instances' = instances + 1
        /\ instances > 0 => RunComplete
        /\ fairRandom' # Nil
        /\ Val(fairRandom') \in NewFairRandomGenerator(Val(fairRandom').rangeSize)
        /\ published' = Nil /\ userValue' = Nil /\ result' = Nil /\ revealed' = Nil
    /\ fairRandom' # fairRandom => instances' = instances + 1
C14_SequentialRuns ==
    /\ [][RunsFollowOneAnother]_vars
    /\ [](/\ instances \in 0..3
          /\ (instances = 0) = (fairRandom = Nil)
          /\ published # Nil => published = Some(GetHmac(Val(fairRandom)))
          /\ result # Nil => result = Some(ComputeResult(Val(fairRandom), Val(userValue)))
          /\ revealed # Nil => revealed = Some(Reveal(Val(fairRandom)))
          /\ GameOver => (instances = 3 /\ RunComplete)
          /\ pc # "exited" =>
                instances = (CASE pc \in {"start", "fm_new"} -> 0
                               [] pc = "roll_new" -> rollNo
                               [] OTHER -> rollNo + 1))

C14_Witness ==
    /\ pc = "done" /\ instances = 3 /\ RunComplete
    /\ Val(fairRandom).rangeSize = 2

\* C16: whichever party moved first, a party's roll is a roll of the die
\* that party selected: the range of the roll's protocol run is the face
\* count of the roller's own die, and the value shown as a party's roll is
\* its own die's face at the index (secret value + contribution) mod face
\* count, so that the outcome compares each party's roll of its own die.
OwnDie(party) ==
    Val(IF party = Val(firstPlayer) THEN firstDieIndex ELSE secondDieIndex)
SecondMover == IF Val(firstPlayer) = "user" THEN "computer" ELSE "user"
RollingPcs == {"roll_publish", "roll_prompt", "roll_compute", "roll_reveal", "roll_return"}
C16_EachPartyRollsItsOwnDie ==
    /\ pc \in RollingPcs =>
        Val(fairRandom).rangeSize = Len(Faces(OwnDie(Roller)))
    /\ (pc = "roll_new" /\ rollNo = 2) =>
        /\ result = Some(ComputeResult(Val(fairRandom), Val(userValue)))
        /\ shownRoll[Val(firstPlayer)] = FaceAt(OwnDie(Val(firstPlayer)), Val(result))
    /\ pc \in {"outcome", "finally", "done"} =>
        /\ result = Some(ComputeResult(Val(fairRandom), Val(userValue)))
        /\ shownRoll[SecondMover] = FaceAt(OwnDie(SecondMover), Val(result))

\* C17: once both dice are selected, whoever moved first, the two
\* parties hold two different dice of the collection: both indices are
\* valid and they differ, the second mover's die is one of the dice left
\* after the first mover's pick, and when the user picks second the die
\* assigned to the user is the one at the entered menu index in the list of
\* the dice left.
Elements(arr) == {arr[i] : i \in 1..Len(arr)}
BothSelected == firstDieIndex # Nil /\ secondDieIndex # Nil
TwoDifferentDice ==
    /\ BothSelected =>
        /\ Val(firstDieIndex) \in 0..(Len(dice) - 1)
        /\ Val(secondDieIndex) \in 0..(Len(dice) - 1)
        /\ Val(firstDieIndex) # Val(secondDieIndex)
        /\ Elements(available) = (0..(Len(dice) - 1)) \ {Val(firstDieIndex)}
        /\ Val(secondDieIndex) \in Elements(available)
    /\ firstPlayerDie # Nil =>
        /\ BothSelected
        /\ secondPlayerDie # Nil
        /\ firstPlayerDie # secondPlayerDie
        /\ {firstPlayerDie, secondPlayerDie} = {firstDieIndex, secondDieIndex}
UserPicksAmongTheRest ==
    (pc = "sd_user_second" /\ pc' # pc /\ pc' # "exited") =>
        /\ firstDieIndex # Nil
        /\ Len(available) = Len(dice) - 1
        /\ secondDieIndex' = Some(At(available, IntegerOf(Trim(Val(answer')))))
        /\ Faces(Val(secondDieIndex')) =
              [i \in 1..Len(available) |-> Faces(available[i])][IntegerOf(Trim(Val(answer'))) + 1]
C17_TwoDifferentDice ==
    /\ []TwoDifferentDice
    /\ [][UserPicksAmongTheRest]_vars

C17_Witness ==
    /\ pc = "roll_new" /\ rollNo = 1
    /\ Val(firstPlayer) = "computer"
    /\ firstDieIndex = Some(0) /\ secondDieIndex = Some(2)
    /\ Trim(Val(answer)) = <<"1">>
    /\ Len(dice) > 3

\* C19: the help token at any prompt, a menu prompt or a roll prompt,
\* shows the probability matrix of the dice and asks again at the same
\* prompt: the first mover, the dice each party holds, the key, secret
\* value and published commitment of the run in flight and everything else
\* of the game stay as they were, nothing is disclosed and nothing ends.
ProbabilityTable ==
    [i \in 1..Len(dice) |-> [j \in 1..Len(dice) |->
        [wins |-> Cardinality(StrictlyGreaterPairs(dice[i], dice[j])),
         pairs |-> Len(dice[i]) * Len(dice[j])]]]
HelpKeepsTheGame ==
    (pc \in PromptPcs /\ Trim(Val(answer')) = <<"?">>) =>
        /\ pc' = pc
        /\ notice' = Some([kind |-> "help", table |-> ProbabilityTable])
        /\ UNCHANGED <<firstPlayer, selectVars, runVars, rollVars, procVars, announcements>>
        /\ pc \in {"fm_prompt", "roll_prompt"} =>
            /\ fairRandom' # Nil /\ published' # Nil
            /\ userValue' = Nil /\ result' = Nil /\ revealed' = Nil
C19_HelpKeepsTheGame == [][HelpKeepsTheGame]_vars

C19_Witness ==
    /\ pc = "roll_prompt" /\ rollNo = 2
    /\ answer = Some(<<"?">>)
    /\ notice # Nil /\ Val(notice).kind = "help"
    /\ Len(Val(notice).table) > 3
    /\ published # Nil /\ revealed = Nil

\* C20: a game with a valid configuration whose user eventually gives a
\* valid reply at each prompt and never aborts (only a bad configuration or
\* an abort ends the process early) eventually finishes: the
\* first move is determined, then the dice are selected, then the two rolls
\* are made, then the outcome is announced, and then the input channel is
\* closed; the channel is closed as well when play ends through an error.
Finished == pc = "done" /\ rlOpen = FALSE /\ announcements # {} /\ errorShown = Nil
PhasesInOrder ==
    /\ firstDieIndex # Nil => firstPlayer # Nil
    /\ secondDieIndex # Nil => firstPlayer # Nil
    /\ firstPlayerDie # Nil => BothSelected
    /\ rollNo > 0 => firstPlayerDie # Nil /\ secondPlayerDie # Nil
    /\ (firstRoll # Nil \/ rollNo = 2) => (firstPlayerDie # Nil /\ shownRoll[Val(firstPlayer)] # Nil)
    /\ secondRoll # Nil => (firstRoll # Nil /\ rollNo = 2)
    /\ announcements # {} => (secondRoll # Nil /\ pc \in {"finally", "done"})
    /\ pc = "finally" => (announcements # {} /\ rlOpen)
    /\ pc \notin {"start", "exited", "done"} => rlOpen
    /\ pc = "done" => (rlOpen = FALSE /\ (announcements # {} \/ errorShown # Nil))
C20_GameFinishes ==
    /\ [](PhasesInOrder /\ (pc = "exited" => (BadConfiguration \/ exitCode = Some(0))))
    /\ [](pc # "exited") => <>Finished

C20_Witness ==
    /\ Finished /\ ~BadConfiguration
    /\ Val(firstPlayer) = "computer"
    /\ Len(Faces(Val(secondPlayerDie))) = 1
    /\ instances = 3

(***************************************************************************)
(* The protocol object on its own: constructed with any rangeSize of       *)
(* RangeInputs, then called in any order with any argument of ValueInputs. *)
(***************************************************************************)
RangeInputs == (-1)..MaxRange
ValueInputs == (-2)..(MaxRange + 1)

InitProtocol ==
    /\ req = Nil
    /\ gen = Nil
    /\ thrown = Nil
    /\ log = <<>>
    /\ DiceIdle
    /\ GameIdle

Construct ==
    /\ req = Nil
    /\ \E r \in RangeInputs :
        /\ req' = Some(r)
        /\ IF NewFairRandomGenerator(r) = {}
           THEN gen' = Nil /\ thrown' = Some("RangeError")
           ELSE (\E g \in NewFairRandomGenerator(r) : gen' = Some(g)) /\ thrown' = Nil
    /\ UNCHANGED <<log, diceVars, gameVars>>

CallGetHmac ==
    /\ gen # Nil
    /\ Len(log) < MaxCalls
    /\ log' = Append(log, [op |-> "getHmac", arg |-> Nil,
                          ret |-> Some(GetHmac(Val(gen))), error |-> Nil])
    /\ UNCHANGED <<req, gen, thrown, diceVars, gameVars>>

CallComputeResult ==
    /\ gen # Nil
    /\ Len(log) < MaxCalls
    /\ \E u \in ValueInputs :
        log' = Append(log, [op |-> "computeResult", arg |-> Some(u),
                            ret |-> Some(ComputeResult(Val(gen), u)),
                            error |-> Nil])
    /\ UNCHANGED <<req, gen, thrown, diceVars, gameVars>>

CallReveal ==
    /\ gen # Nil
    /\ Len(log) < MaxCalls
    /\ log' = Append(log, [op |-> "reveal", arg |-> Nil,
                          ret |-> Some(Reveal(Val(gen))), error |-> Nil])
    /\ UNCHANGED <<req, gen, thrown, diceVars, gameVars>>

NextProtocol == Construct \/ CallGetHmac \/ CallComputeResult \/ CallReveal

SpecProtocol == InitProtocol /\ [][NextProtocol]_vars

(***************************************************************************)
(* Claims on the protocol object (SpecProtocol).                           *)
(***************************************************************************)
Calls(name) == {i \in 1..Len(log) : log[i].op = name}
IsBijectionOn(f, S) ==
    /\ \A x \in S : f[x] \in S
    /\ \A x, y \in S : f[x] = f[y] => x = y

\* C2: for every range R >= 1, with the secret value fixed the map from the
\* counterpart value to computeResult is a bijection of 0..R-1 onto itself,
\* and with the counterpart value fixed so is the map from the secret value.
C2_NeitherPartyDecides ==
    gen # Nil =>
        LET g == Val(gen) IN
        /\ IsBijectionOn([u \in RangeOf(g) |-> ComputeResult(g, u)], RangeOf(g))
        /\ \A u \in RangeOf(g) :
            IsBijectionOn([s \in RangeOf(g) |->
                ComputeResult([g EXCEPT !.computerNumber = s], u)], RangeOf(g))

C2_Witness ==
    /\ gen # Nil
    /\ Val(gen).rangeSize >= 3
    /\ \E i \in Calls("computeResult") :
        Val(log[i].arg) \in RangeOf(Val(gen)) /\ Val(log[i].arg) > 0

\* C3: the secret value of an instance of range R >= 1 lies in 0..R-1, and
\* computeResult of a counterpart value u of 0..R-1 returns a value of
\* 0..R-1 that equals (revealed secret + u) mod R for the secret a later
\* reveal() returns.
C3_ProtocolCorrectness ==
    gen # Nil =>
        LET g == Val(gen) IN
        /\ g.rangeSize >= 1
        /\ g.computerNumber \in RangeOf(g)
        /\ \A i \in Calls("computeResult") :
            Val(log[i].arg) \in RangeOf(g) =>
                /\ log[i].error = Nil
                /\ Val(log[i].ret) \in RangeOf(g)
                /\ \A j \in Calls("reveal") :
                    j > i => Val(log[i].ret) =
                        (Val(log[j].ret).computerNumber + Val(log[i].arg)) % g.rangeSize

C3_Witness ==
    /\ gen # Nil
    /\ \E i \in Calls("computeResult") : \E j \in Calls("reveal") :
        /\ j > i
        /\ Val(log[i].arg) \in RangeOf(Val(gen))
        /\ Val(gen).computerNumber + Val(log[i].arg) >= Val(gen).rangeSize

\* what the counterpart recomputes from a disclosure: the keyed hash, under
\* the disclosed key read back from hex, of the disclosed number in decimal
HexValue(c) == (CHOOSE i \in 1..16 : HexDigits[i] = c) - 1
HexToBuffer(hex) ==
    [i \in 1..(Len(hex) \div 2) |-> 16 * HexValue(hex[2 * i - 1]) + HexValue(hex[2 * i])]
RecomputedHmac(disclosed) ==
    Hmac(HexToBuffer(disclosed.key), NumberToString(disclosed.computerNumber))

\* C4: the key and the secret value of an instance never change once it is
\* constructed; every getHmac() returns the same digest, every reveal()
\* the same key and secret value, and the keyed hash recomputed from a
\* disclosure equals the digest published before it.
C4_KeyAndSecretFixed ==
    /\ [][gen # Nil => gen' = gen]_vars
    /\ [](gen # Nil =>
            /\ \A i, j \in Calls("getHmac") : log[i].ret = log[j].ret
            /\ \A i, j \in Calls("reveal") : log[i].ret = log[j].ret
            /\ \A i \in Calls("reveal") :
                /\ Val(log[i].ret).computerNumber = Val(gen).computerNumber
                /\ HexToBuffer(Val(log[i].ret).key) = Val(gen).key
                /\ \A j \in Calls("getHmac") :
                    j < i => RecomputedHmac(Val(log[i].ret)) = Val(log[j].ret))

C4_Witness ==
    /\ gen # Nil
    /\ \E j \in Calls("getHmac") : \E c \in Calls("computeResult") :
        \E i \in Calls("reveal") : j < c /\ c < i

\* C5: computeResult of a counterpart value below 0 or at or above the range
\* fails with InvalidCounterValue and returns nothing.
C5_OutOfRangeValueRejected ==
    gen # Nil =>
        \A i \in Calls("computeResult") :
            Val(log[i].arg) \notin RangeOf(Val(gen)) =>
                log[i].error = Some("InvalidCounterValue") /\ log[i].ret = Nil

\* C18: an instance honours only its first computeResult call: a repeated
\* computeResult call on the same instance, also one with a counterpart
\* value of the range, fails with ProtocolStateError and produces no
\* second result.
C18_RepeatedComputeResultFails ==
    gen # Nil =>
        \A i, j \in Calls("computeResult") :
            (i < j /\ Val(log[i].arg) \in RangeOf(Val(gen))
                   /\ Val(log[j].arg) \in RangeOf(Val(gen))) =>
                log[j].error = Some("ProtocolStateError") /\ log[j].ret = Nil

\* C6: constructing an instance with a range of 0 or below fails: the
\* constructor throws and no instance with a key and a secret value exists.
C6_NonPositiveRangeRejected ==
    /\ (req # Nil /\ Val(req) <= 0) => (gen = Nil /\ thrown # Nil /\ log = <<>>)
    /\ gen # Nil => Val(gen).rangeSize >= 1

C6_Witness == req # Nil /\ Val(req) <= 0 /\ thrown # Nil

====
